---- MODULE Spec2Model ----
(***************************************************************************)
(* Choreography timeline engine of the Cycle Choreo Author editor          *)
(* (src/src/EditorPage.tsx and the catalog variant in src/unnamed/part_002)*)
(* : the cue list `steps`, the snap-merge mark, the by-id edits, import,   *)
(* track load and the undo/redo snapshot stacks.                           *)
(*                                                                         *)
(* Numbers that may carry a fraction when they enter the program (a clock  *)
(* reading, audio.duration * 1000) are records [whole, half] standing for  *)
(* whole + (IF half THEN 0.5 ELSE 0).  Text typed by the operator (a note, *)
(* a timestamp) is a sequence of one-character strings.                    *)
(*                                                                         *)
(* The transport clock (the <audio> element, the Spotify player, the       *)
(* position estimator kept in four refs, the displayed nowMs) is part of   *)
(* the state; the specification SpecClock drives it.  Date.now() is the    *)
(* variable wallNow and is taken to be non-decreasing.                     *)
(***************************************************************************)
EXTENDS Integers, Sequences, FiniteSets, TLC

VARIABLES
    steps,          \* useState<Step[]>            EditorPage.tsx:123
    undoStack,      \* useState<Step[][]>          EditorPage.tsx:131
    redoStack,      \* useState<Step[][]>          EditorPage.tsx:132
    durationMs,     \* useState(0)                 EditorPage.tsx:169
    uidCount,       \* number of ids uid() has handed out so far
    pendingImport,  \* importSession calls suspended at `await file.text()`
    nowMs,          \* useState(0)                 EditorPage.tsx:168
    isPlaying,      \* useState(false)             EditorPage.tsx:170
    audioUrl,       \* useState("")                EditorPage.tsx:174
    audioTime,      \* audioRef.current.currentTime * 1000 of the mounted <audio>
    audioPaused,    \* audioRef.current.paused
    audioListening, \* the listeners of EditorPage.tsx:192-213 sit on the mounted <audio>
    useSpotify,     \* useState(false)             EditorPage.tsx:216
    spotifyPlayer,  \* spotifyPlayerRef.current is a connected player whose listeners are live
    spotifyReady,   \* useState(false)             EditorPage.tsx:219
    spotifyStatus,  \* useState<string>("")        EditorPage.tsx:220
    stalePlayer,    \* a player whose effect was cleaned up (cancelled = true, :318) exists
    spotifyBasePos, \* spotifyBasePosRef           EditorPage.tsx:222
    spotifyBaseTs,  \* spotifyBaseTsRef            EditorPage.tsx:223
    spotifyPaused,  \* spotifyPausedRef            EditorPage.tsx:224
    spotifyDuration,\* spotifyDurationRef          EditorPage.tsx:225
    pendingSeek,    \* seekTo calls suspended at `await p.seek(t)`
    wallNow,        \* Date.now()
    trail,          \* history variable: the last operations and the state each started from
    nOps            \* history variable: number of operations performed

clockVars == <<nowMs, isPlaying, audioUrl, audioTime, audioPaused, audioListening,
               useSpotify, spotifyPlayer, spotifyReady, spotifyStatus, stalePlayer,
               spotifyBasePos, spotifyBaseTs, spotifyPaused, spotifyDuration, pendingSeek,
               wallNow>>

timelineVars == <<steps, undoStack, redoStack, uidCount, pendingImport>>

vars == <<steps, undoStack, redoStack, durationMs, uidCount, pendingImport, clockVars, trail, nOps>>

----------------------------------------------------------------------------
(* Bounds of the model *)

MaxOps == 4          \* operations per behaviour of Spec
MaxUid == 3          \* ids uid() may hand out
MaxPending == 1      \* import calls in flight at once
MaxClockOps == 6     \* operations per behaviour of SpecClock
MaxSeeks == 1        \* seekTo calls in flight at once
MaxEditOps == 3      \* operations per behaviour of SpecEdits
MaxPlayerOps == 5    \* operations per behaviour of SpecPlayer
HistoryWindow == 3   \* operations remembered by `trail`

(* Program constants *)

snapMs == 250
UndoCap == 30
MAX_SAFE_INTEGER == 2^30 + (2^30 - 1)   \* the largest integer of the model, for 2^53 - 1

----------------------------------------------------------------------------
(* Generic helpers *)

Range(s) == {s[i] : i \in 1..Len(s)}

Abs(n) == IF n < 0 THEN -n ELSE n

Min(a, b) == IF a < b THEN a ELSE b

Max(a, b) == IF a > b THEN a ELSE b

Floor(r) == r.whole

\* the integer n as a number that may carry a fraction
Num(n) == [whole |-> n, half |-> FALSE]

\* a + b of two such numbers
AddNum(a, b) ==
    [whole |-> a.whole + b.whole + (IF a.half /\ b.half THEN 1 ELSE 0),
     half |-> (a.half # b.half)]

\* a <= b of two such numbers
LeqNum(a, b) == a.whole < b.whole \/ (a.whole = b.whole /\ (b.half \/ ~a.half))

MinNum(a, b) == IF LeqNum(a, b) THEN a ELSE b

MaxNum(a, b) == IF LeqNum(a, b) THEN b ELSE a

\* clamp(n, min, max) of a number that may carry a fraction, between integers
clampNum(n, min, max) == MaxNum(Num(min), MinNum(Num(max), n))

Front(s) == SubSeq(s, 1, Len(s) - 1)

Last(s) == s[Len(s)]

\* Array.prototype.slice(-n)
SliceLast(s, n) == IF Len(s) <= n THEN s ELSE SubSeq(s, Len(s) - n + 1, Len(s))

\* {...a, ...b}: the fields of b override those of a
Spread(a, b) == b @@ a

clamp(n, min, max) == Max(min, Min(max, n))

Digits == <<"0", "1", "2", "3", "4", "5", "6", "7", "8", "9">>

IsDigit(c) == \E d \in 1..10 : Digits[d] = c

DigitValue(c) == (CHOOSE d \in 1..10 : Digits[d] = c) - 1

RECURSIVE Number(_)
Number(ds) == IF ds = <<>> THEN 0 ELSE 10 * Number(Front(ds)) + DigitValue(Last(ds))

\* String(s).padStart(2, "0") of a non-negative integer
padStart2(n) == IF n < 10 THEN "0" \o ToString(n) ELSE ToString(n)

formatTimestamp(ms) ==
    LET totalSec == Max(0, ms \div 1000)
        m == totalSec \div 60
        s == totalSec % 60
    IN  ToString(m) \o ":" \o padStart2(s)

\* ts.match(/^(\d+):([0-5]\d)$/)
MatchesTimestamp(ts) ==
    /\ Len(ts) >= 4
    /\ ts[Len(ts) - 2] = ":"
    /\ \A i \in 1..(Len(ts) - 3) : IsDigit(ts[i])
    /\ IsDigit(ts[Len(ts) - 1]) /\ DigitValue(ts[Len(ts) - 1]) <= 5
    /\ IsDigit(ts[Len(ts)])

parseTimestamp(ts) ==
    IF ~MatchesTimestamp(ts) THEN 0
    ELSE LET min == Number(SubSeq(ts, 1, Len(ts) - 3))
             sec == Number(SubSeq(ts, Len(ts) - 1, Len(ts)))
         IN  (min * 60 + sec) * 1000

RECURSIVE TrimStart(_)
TrimStart(s) == IF s # <<>> /\ Head(s) = " " THEN TrimStart(Tail(s)) ELSE s

RECURSIVE TrimEnd(_)
TrimEnd(s) == IF s # <<>> /\ Last(s) = " " THEN TrimEnd(Front(s)) ELSE s

Trim(s) == TrimEnd(TrimStart(s))

\* the value `undefined` of an optional field
undefined == <<"undefined">>

\* the value `null`
NullState == [null |-> TRUE]

IsNull(v) == "null" \in DOMAIN v

\* a uid() that can return an id it returned before
uid_reused(n) == "u1"

\* uid(): an id no earlier call returned
uid(n) == "u" \o ToString(n + 1)

\* Array.prototype.sort((a, b) => a.t_ms - b.t_ms): stable, ascending by t_ms
RECURSIVE InsertSorted(_, _)
InsertSorted(s, c) ==
    IF s = <<>> THEN <<c>>
    ELSE IF Last(s).t_ms <= c.t_ms THEN Append(s, c)
    ELSE Append(InsertSorted(Front(s), c), Last(s))

RECURSIVE SortByTime(_)
SortByTime(s) == IF s = <<>> THEN <<>> ELSE InsertSorted(SortByTime(Front(s)), Last(s))

\* a search that returns the last match, not the first
FindIndexNear_last(s, t) ==
    LET hits == {i \in 1..Len(s) : Abs(s[i].t_ms - t) <= snapMs}
    IN  IF hits = {} THEN 0 ELSE CHOOSE i \in hits : \A j \in hits : i >= j

\* Array.prototype.findIndex, 0 when nothing matches (indices start at 1)
FindIndexNear(s, t) ==
    LET hits == {i \in 1..Len(s) : Abs(s[i].t_ms - t) <= snapMs}
    IN  IF hits = {} THEN 0 ELSE CHOOSE i \in hits : \A j \in hits : i <= j

Ids(s) == {s[i].id : i \in 1..Len(s)}

----------------------------------------------------------------------------
(* History manager *)

\* a push that stores the snapshot twice
pushUndoStack_twice(u, prevSteps) == Append(Append(SliceLast(u, UndoCap), prevSteps), prevSteps)

\* pushUndo: setUndoStack((u) => [...u.slice(-30), prevSteps]); setRedoStack([])
pushUndoStack(u, prevSteps) == Append(SliceLast(u, UndoCap), prevSteps)

\* a push that leaves the redo sequence alone
pushUndo_keepsRedo(prevSteps) ==
    /\ undoStack' = pushUndoStack(undoStack, prevSteps)
    /\ UNCHANGED redoStack

pushUndo(prevSteps) ==
    /\ undoStack' = pushUndoStack(undoStack, prevSteps)
    /\ redoStack' = <<>>

\* the transport clock as one value, for the history variable
ClockState ==
    [nowMs |-> nowMs, isPlaying |-> isPlaying, audioUrl |-> audioUrl, audioTime |-> audioTime,
     audioPaused |-> audioPaused, audioListening |-> audioListening, useSpotify |-> useSpotify,
     spotifyPlayer |-> spotifyPlayer, spotifyReady |-> spotifyReady,
     spotifyStatus |-> spotifyStatus, stalePlayer |-> stalePlayer,
     spotifyBasePos |-> spotifyBasePos, spotifyBaseTs |-> spotifyBaseTs,
     spotifyPaused |-> spotifyPaused, spotifyDuration |-> spotifyDuration,
     pendingSeek |-> pendingSeek, wallNow |-> wallNow]

\* the history variable: remember the operation and the state it started from
Record(op, arg) ==
    trail' = SliceLast(Append(trail, [op |-> op, arg |-> arg, steps |-> steps,
                                      undoStack |-> undoStack, redoStack |-> redoStack,
                                      durationMs |-> durationMs]),
                       HistoryWindow)

\* the same for an operation of the transport clock, with the clock it started from
RecordClock(op, arg) ==
    trail' = SliceLast(Append(trail, [op |-> op, arg |-> arg, steps |-> steps,
                                      undoStack |-> undoStack, redoStack |-> redoStack,
                                      durationMs |-> durationMs, clock |-> ClockState]),
                       HistoryWindow)

\* an undo that saves the popped snapshot, not the current timeline, for redo
undo_savesPopped ==
    /\ IF undoStack = <<>>
       THEN UNCHANGED <<steps, undoStack, redoStack>>
       ELSE /\ redoStack' = Append(redoStack, Last(undoStack))
            /\ steps' = Last(undoStack)
            /\ undoStack' = Front(undoStack)
    /\ Record("undo", <<>>)
    /\ UNCHANGED <<durationMs, uidCount, pendingImport>>

\* an undo without the early return on an empty undo sequence
undo_unguarded ==
    /\ redoStack' = Append(redoStack, steps)
    /\ steps' = IF undoStack = <<>> THEN <<>> ELSE Last(undoStack)
    /\ undoStack' = IF undoStack = <<>> THEN <<>> ELSE Front(undoStack)
    /\ Record("undo", <<>>)
    /\ UNCHANGED <<durationMs, uidCount, pendingImport>>

undo ==
    /\ IF undoStack = <<>>
       THEN UNCHANGED <<steps, undoStack, redoStack>>
       ELSE /\ redoStack' = Append(redoStack, steps)
            /\ steps' = Last(undoStack)
            /\ undoStack' = Front(undoStack)
    /\ Record("undo", <<>>)
    /\ UNCHANGED <<durationMs, uidCount, pendingImport>>

\* a redo that leaves the snapshot it restored on the redo sequence
redo_keepsSnapshot ==
    /\ IF redoStack = <<>>
       THEN UNCHANGED <<steps, undoStack, redoStack>>
       ELSE /\ undoStack' = Append(undoStack, steps)
            /\ steps' = Last(redoStack)
            /\ redoStack' = redoStack
    /\ Record("redo", <<>>)
    /\ UNCHANGED <<durationMs, uidCount, pendingImport>>

\* a redo that does not put the current timeline back on the undo sequence
redo_dropsCurrent ==
    /\ IF redoStack = <<>>
       THEN UNCHANGED <<steps, undoStack, redoStack>>
       ELSE /\ undoStack' = undoStack
            /\ steps' = Last(redoStack)
            /\ redoStack' = Front(redoStack)
    /\ Record("redo", <<>>)
    /\ UNCHANGED <<durationMs, uidCount, pendingImport>>

redo ==
    /\ IF redoStack = <<>>
       THEN UNCHANGED <<steps, undoStack, redoStack>>
       ELSE /\ undoStack' = Append(undoStack, steps)
            /\ steps' = Last(redoStack)
            /\ redoStack' = Front(redoStack)
    /\ Record("redo", <<>>)
    /\ UNCHANGED <<durationMs, uidCount, pendingImport>>

----------------------------------------------------------------------------
(* Snap-merge editor *)

\* a mark time that is the floored reading, whatever the duration
MarkTime_unclamped(reading, duration) == Floor(reading)

\* the timestamp a mark gets: clamp(Math.floor(getCurrentTimeMs()), 0, durationMs || MAX_SAFE_INTEGER)
MarkTime(reading, duration) ==
    clamp(Floor(reading), 0, IF duration # 0 THEN duration ELSE MAX_SAFE_INTEGER)

\* the list upsertAtNow's updater returns for the list prev
upsertSteps(prev, t, stepPatch, newId) ==
    LET idx == FindIndexNear(prev, t)
        stamp == [t_ms |-> t, timestamp |-> formatTimestamp(t)]
        next == IF idx > 0
                THEN [i \in 1..Len(prev) |->
                        IF i = idx THEN Spread(Spread(prev[i], stepPatch), stamp) ELSE prev[i]]
                ELSE Append(prev, Spread(Spread([id |-> newId], stepPatch), stamp))
    IN  SortByTime(next)

upsertAtNow(reading, stepPatch) ==
    LET t == MarkTime(reading, durationMs)
        created == FindIndexNear(steps, t) = 0
    IN  /\ created => uidCount < MaxUid
        /\ steps' = upsertSteps(steps, t, stepPatch, uid(uidCount))
        /\ uidCount' = IF created THEN uidCount + 1 ELSE uidCount
        /\ pushUndo(steps)
        /\ Record("mark", [t |-> t, stepPatch |-> stepPatch])
        /\ UNCHANGED <<durationMs, pendingImport>>

\* the payload markCueNow builds from the selector state
MarkPayload(sel) ==
    LET baseNote == Trim(sel.selNote)
        trendTag == IF sel.rpmTrend # ""
                    THEN (IF sel.rpmTrend = "down" THEN <<"R", "P", "M", "v", " ">>
                                                   ELSE <<"R", "P", "M", "^", " ">>)
                    ELSE <<>>
        note == Trim(trendTag \o baseNote)
    IN  [exercise |-> sel.selExercise,
         gear |-> sel.selGear,
         resistance |-> "L" \o ToString(sel.selGear),
         position |-> sel.selPosition,
         rpmMin |-> sel.selRpmMin,
         rpmMax |-> sel.selRpmMax,
         note |-> IF note # <<>> THEN note ELSE undefined]

markCueNow(reading, sel) == upsertAtNow(reading, MarkPayload(sel))

----------------------------------------------------------------------------------------------------------------------------------------
(* Timeline store: edits by id, clear *)

\* an update that stores gear and rpm as they were typed
updatedStep_unclamped(s, patch) ==
    LET merged == Spread(s, patch)
        t == IF "timestamp" \in DOMAIN patch /\ patch.timestamp # <<>>
             THEN parseTimestamp(patch.timestamp)
             ELSE merged.t_ms
    IN  Spread(merged, [t_ms |-> t,
                        timestamp |-> formatTimestamp(t),
                        resistance |-> "L" \o ToString(merged.gear)])

\* the step updateStep's map callback returns for a step whose id matches
updatedStep(s, patch) ==
    LET merged == Spread(s, patch)
        t == IF "timestamp" \in DOMAIN patch /\ patch.timestamp # <<>>
             THEN parseTimestamp(patch.timestamp)
             ELSE merged.t_ms
        gear == clamp(merged.gear, 1, 30)
    IN  Spread(merged, [t_ms |-> t,
                        timestamp |-> formatTimestamp(t),
                        gear |-> gear,
                        rpmMin |-> clamp(merged.rpmMin, 40, 160),
                        rpmMax |-> clamp(merged.rpmMax, 40, 160),
                        resistance |-> "L" \o ToString(gear)])

\* an update that patches every step, whatever its id
updateSteps_all(prev, id, patch) ==
    SortByTime([i \in 1..Len(prev) |-> updatedStep(prev[i], patch)])

updateSteps(prev, id, patch) ==
    SortByTime([i \in 1..Len(prev) |->
                   IF prev[i].id # id THEN prev[i] ELSE updatedStep(prev[i], patch)])

updateStep(id, patch) ==
    /\ steps' = updateSteps(steps, id, patch)
    /\ pushUndo(steps)
    /\ Record("update", [id |-> id, patch |-> patch])
    /\ UNCHANGED <<durationMs, uidCount, pendingImport>>

\* Array.prototype.filter((s) => s.id !== id)
RECURSIVE deleteSteps(_, _)
deleteSteps(prev, id) ==
    IF prev = <<>> THEN <<>>
    ELSE IF Last(prev).id # id THEN Append(deleteSteps(Front(prev), id), Last(prev))
    ELSE deleteSteps(Front(prev), id)

deleteStep(id) ==
    /\ steps' = deleteSteps(steps, id)
    /\ pushUndo(steps)
    /\ Record("delete", [id |-> id])
    /\ UNCHANGED <<durationMs, uidCount, pendingImport>>

nudgedStep(s, deltaMs, duration) ==
    LET t == clamp(s.t_ms + deltaMs, 0, IF duration # 0 THEN duration ELSE MAX_SAFE_INTEGER)
    IN  Spread(s, [t_ms |-> t, timestamp |-> formatTimestamp(t)])

nudgeSteps(prev, id, deltaMs, duration) ==
    SortByTime([i \in 1..Len(prev) |->
                   IF prev[i].id # id THEN prev[i] ELSE nudgedStep(prev[i], deltaMs, duration)])

nudgeStep(id, deltaMs) ==
    /\ steps' = nudgeSteps(steps, id, deltaMs, durationMs)
    /\ pushUndo(steps)
    /\ Record("nudge", [id |-> id, deltaMs |-> deltaMs])
    /\ UNCHANGED <<durationMs, uidCount, pendingImport>>

\* the Clear button's onClick; the button is disabled while there are no steps
clearSteps ==
    /\ steps # <<>>
    /\ pushUndo(steps)
    /\ steps' = <<>>
    /\ Record("clear", <<>>)
    /\ UNCHANGED <<durationMs, uidCount, pendingImport>>

----------------------------------------------------------------------------
(* Import of a session document, load of a catalog track, audio metadata *)

\* s.f ?? d
Field(s, f, d) == IF f \in DOMAIN s THEN s[f] ELSE d

\* A value read from a document is tagged with what JSON.parse made of it
\* where the program asks: an array is [array |-> its items], a number is a
\* record [whole, half], a string is [string |-> its text], null is NullState.

\* Array.isArray(v)
IsArray(v) == "array" \in DOMAIN v

\* typeof v === "number"
IsNumber(v) == "whole" \in DOMAIN v

\* a filter that also drops the entries whose t_ms carries a fraction
KeepsEntry_wholeOnly(e) == ~IsNull(e) /\ "t_ms" \in DOMAIN e /\ IsNumber(e.t_ms) /\ ~e.t_ms.half

\* s && typeof s.t_ms === "number"
KeepsEntry(e) == ~IsNull(e) /\ "t_ms" \in DOMAIN e /\ IsNumber(e.t_ms)

\* .filter((s) => s && typeof s.t_ms === "number")
RECURSIVE NumericEntries(_)
NumericEntries(es) ==
    IF es = <<>> THEN <<>>
    ELSE IF KeepsEntry(Last(es)) THEN Append(NumericEntries(Front(es)), Last(es))
    ELSE NumericEntries(Front(es))

HasId(e) == "id" \in DOMAIN e /\ e.id # ""

MissingIds(es) == Cardinality({i \in 1..Len(es) : ~HasId(es[i])})

\* the step importSession's map callback builds from a document entry
importedStep(e, newId) ==
    [id |-> IF HasId(e) THEN e.id ELSE newId,
     t_ms |-> Floor(e.t_ms),
     timestamp |-> formatTimestamp(Floor(e.t_ms)),
     exercise |-> IF Field(e, "exercise", "") # "" THEN e.exercise ELSE "flat",
     gear |-> clamp(Field(e, "gear", 5), 1, 30),
     resistance |-> Field(e, "resistance", "L" \o ToString(Field(e, "gear", 5))),
     position |-> Field(e, "position", "Ride easy"),
     rpmMin |-> clamp(Field(e, "rpmMin", 65), 40, 160),
     rpmMax |-> clamp(Field(e, "rpmMax", 75), 40, 160),
     note |-> Field(e, "note", undefined)]

\* .map(...): entries without an id take the next ids of uid(), in order
RECURSIVE MapImported(_, _)
MapImported(es, n) ==
    IF es = <<>> THEN <<>>
    ELSE Append(MapImported(Front(es), n),
                importedStep(Last(es), uid(n + MissingIds(Front(es)))))

importedSteps(doc, n) == SortByTime(MapImported(NumericEntries(doc.steps.array), n))

\* !data || !Array.isArray(data.steps)
InvalidDoc(doc) == IsNull(doc) \/ "steps" \notin DOMAIN doc \/ ~IsArray(doc.steps)

\* importSession up to `await file.text()`: the closure holds the steps of this render
importStart(doc) ==
    /\ Len(pendingImport) < MaxPending
    /\ pendingImport' = Append(pendingImport, [doc |-> doc, steps |-> steps])
    /\ Record("importStart", [doc |-> doc])
    /\ UNCHANGED <<steps, undoStack, redoStack, durationMs, uidCount>>

\* an import that pushes its snapshot before it validates the document
importSession_pushesFirst(i) ==
    LET doc == pendingImport[i].doc
        captured == pendingImport[i].steps
        rest == [j \in 1..(Len(pendingImport) - 1) |->
                    IF j < i THEN pendingImport[j] ELSE pendingImport[j + 1]]
    IN  /\ pendingImport' = rest
        /\ pushUndo(captured)
        /\ IF InvalidDoc(doc)
           THEN /\ Record("importRejected", [doc |-> doc])
                /\ UNCHANGED <<steps, uidCount>>
           ELSE /\ uidCount + MissingIds(NumericEntries(doc.steps.array)) <= MaxUid
                /\ steps' = importedSteps(doc, uidCount)
                /\ uidCount' = uidCount + MissingIds(NumericEntries(doc.steps.array))
                /\ Record("import", [doc |-> doc, captured |-> captured])
        /\ UNCHANGED durationMs

\* importSession after the file was read
importSession(i) ==
    LET doc == pendingImport[i].doc
        captured == pendingImport[i].steps
        rest == [j \in 1..(Len(pendingImport) - 1) |->
                    IF j < i THEN pendingImport[j] ELSE pendingImport[j + 1]]
    IN  /\ pendingImport' = rest
        /\ IF InvalidDoc(doc)
           THEN /\ Record("importRejected", [doc |-> doc])
                /\ UNCHANGED <<steps, undoStack, redoStack, uidCount>>
           ELSE /\ uidCount + MissingIds(NumericEntries(doc.steps.array)) <= MaxUid
                /\ pushUndo(captured)
                /\ steps' = importedSteps(doc, uidCount)
                /\ uidCount' = uidCount + MissingIds(NumericEntries(doc.steps.array))
                /\ Record("import", [doc |-> doc, captured |-> captured])
        /\ UNCHANGED durationMs

\* the Spotify URI the selectedTrack effect derives, "" when there is none
TrackUri(track) ==
    IF "spotify_url" \in DOMAIN track
    THEN (IF track.spotify_url.trackId # "" THEN "spotify:track:" \o track.spotify_url.trackId ELSE "")
    ELSE IF Field(track, "spotify_id", "") # "" THEN "spotify:track:" \o track.spotify_id
    ELSE ""

\* the selectedTrack effect of the catalog variant of the editor
loadSelectedTrack(track) ==
    /\ IF TrackUri(track) # ""
       THEN /\ durationMs' = Field(track, "duration_minutes", 0) * 60 * 1000
            /\ steps' = IF "choreography" \in DOMAIN track THEN track.choreography ELSE steps
       ELSE UNCHANGED <<steps, durationMs>>
    /\ Record("trackLoad", [track |-> track])
    /\ UNCHANGED <<undoStack, redoStack, uidCount, pendingImport>>

\* the audio element's loadedmetadata listener
onLoaded(audioDurationMs) ==
    /\ durationMs' = Floor(audioDurationMs)
    /\ Record("loadedmetadata", [duration |-> audioDurationMs])
    /\ UNCHANGED <<steps, undoStack, redoStack, uidCount, pendingImport>>

----------------------------------------------------------------------------
(* Inputs *)

Readings == {[whole |-> 10000, half |-> FALSE],
             [whole |-> 10200, half |-> TRUE],
             [whole |-> 10400, half |-> FALSE],
             [whole |-> 11000, half |-> FALSE]}

Selections ==
    {[selExercise |-> "flat", selGear |-> 5, selPosition |-> "Ride easy",
      selRpmMin |-> 65, selRpmMax |-> 75, selNote |-> <<>>, rpmTrend |-> ""],
     [selExercise |-> "climb", selGear |-> 8, selPosition |-> "Seated Climb",
      selRpmMin |-> 60, selRpmMax |-> 70, selNote |-> <<" ", "g", "o", " ">>, rpmTrend |-> "up"]}

Patches ==
    {[timestamp |-> <<"0", ":", "1", "1">>],
     [timestamp |-> <<"1", ":", "7">>],
     [gear |-> 99],
     [rpmMin |-> 10, rpmMax |-> 200, note |-> <<"x">>]}

NudgeDeltas == {-250, 50}

\* documents that are null, or whose steps field is not an array
MalformedDocuments ==
    {NullState,
     [source |-> "wav", track |-> "a.wav", steps |-> [string |-> "none"]]}

Documents ==
    {[source |-> "wav", track |-> "a.wav"],
     [source |-> "wav", track |-> "a.wav",
      steps |-> [array |-> <<[id |-> "a", t_ms |-> [whole |-> 10400, half |-> FALSE], gear |-> 7],
                             [id |-> "a", t_ms |-> [whole |-> 10000, half |-> TRUE]]>>]],
     [source |-> "spotify", track |-> "spotify:track:x",
      steps |-> [array |-> <<[t_ms |-> [whole |-> 10200, half |-> FALSE], gear |-> 50,
                              note |-> <<"n">>],
                             [id |-> "b", gear |-> 3],
                             NullState,
                             [id |-> "c", t_ms |-> [string |-> "10300"]]>>]]}

Catalog ==
    {[spotify_id |-> "t1", duration_minutes |-> 1,
      choreography |-> <<[id |-> "k1", t_ms |-> 10100, timestamp |-> "0:10", exercise |-> "sprint",
                          gear |-> 9, resistance |-> "L9", position |-> "Sprint",
                          rpmMin |-> 90, rpmMax |-> 110, note |-> undefined]>>],
     [spotify_id |-> "t2", spotify_url |-> [trackId |-> "ABC"]],
     [spotify_id |-> ""]}

AudioDurations == {[whole |-> 10300, half |-> TRUE]}

Files == {[name |-> "a.wav", duration |-> [whole |-> 10300, half |-> TRUE]]}

PlayerStates ==
    {[position |-> 5000, paused |-> FALSE, duration |-> 10000],
     [position |-> 2000, paused |-> TRUE, duration |-> 5000],
     NullState}

\* what a player that was torn down can still deliver
StaleEvents ==
    {[name |-> "ready"], [name |-> "not_ready"],
     [name |-> "player_state_changed",
      state |-> [position |-> 5000, paused |-> FALSE, duration |-> 10000]]}

SeekDeltas == {-2000, 5000}

Elapses == {[whole |-> 300, half |-> TRUE]}

StartOfSession == 1000

\* positions at which the active cue is asked for
ProbePositions ==
    {Num(0), Num(9999), Num(10000), [whole |-> 10000, half |-> TRUE], Num(10200), Num(10399),
     Num(10400), Num(11000), Num(60000)}

----------------------------------------------------------------------------
(* Transport clock: the <audio> element, the Spotify player, the estimator *)

\* the media duration, in ms, of the file behind an object URL
FileDuration(url) == (CHOOSE f \in Files : f.name = url).duration

\* getSpotifyNowMs over explicit refs and an explicit Date.now()
SpotifyNowMs(base, ts, paused, now) ==
    IF paused THEN base ELSE base + Max(0, now - ts)

getSpotifyNowMs == SpotifyNowMs(spotifyBasePos, spotifyBaseTs, spotifyPaused, wallNow)

\* getCurrentTimeMs; the <audio> element is mounted whenever useSpotify is off,
\* and its currentTime is 0 while it has no source
getCurrentTimeMs == IF useSpotify THEN Num(getSpotifyNowMs) ELSE audioTime

canControl == IF useSpotify THEN spotifyReady ELSE audioUrl # ""

stepsSorted == SortByTime(steps)

\* a comparison that leaves out the cue lying exactly at the position
Reached_strictly(s, t) == ~LeqNum(t, Num(s.t_ms))

\* s.t_ms <= t
Reached(s, t) == LeqNum(Num(s.t_ms), t)

\* the loop of currentStep: keep the last cue reached, stop at the first one not reached
RECURSIVE ScanSteps(_, _, _)
ScanSteps(rest, t, last) ==
    IF rest = <<>> THEN last
    ELSE IF Reached(Head(rest), t) THEN ScanSteps(Tail(rest), t, Head(rest))
    ELSE last

\* currentStep for a sorted list and a position, NullState for null
currentStepAt(sorted, t) == IF sorted = <<>> THEN NullState ELSE ScanSteps(sorted, t, NullState)

currentStep == currentStepAt(stepsSorted, nowMs)

\* the "Use Spotify" checkbox, with the effects its re-render runs: the player
\* effect (init when logged in, cleanup when switched off) and the swap of the
\* <audio> element for the Spotify panel.  The four refs are not touched.
onUseSpotifyChange(on, loggedIn) ==
    /\ useSpotify' = on
    /\ isPlaying' = FALSE
    /\ nowMs' = Num(0)
    /\ durationMs' = 0
    /\ spotifyPlayer' = (on /\ loggedIn)
    /\ spotifyReady' = FALSE
    /\ spotifyStatus' = IF on /\ ~loggedIn THEN "Not logged in" ELSE spotifyStatus
    /\ stalePlayer' = (stalePlayer \/ spotifyPlayer)
    /\ audioTime' = Num(0)
    /\ audioPaused' = TRUE
    /\ audioListening' = FALSE
    /\ RecordClock("useSpotify", [on |-> on, loggedIn |-> loggedIn])
    /\ UNCHANGED <<audioUrl, spotifyBasePos, spotifyBaseTs, spotifyPaused, spotifyDuration,
                   pendingSeek, wallNow>>
    /\ UNCHANGED timelineVars

\* onPickFile, with the effects its re-render runs: the player effect's cleanup
\* and the listener effect on the <audio> element that now has the new source
onPickFile(file) ==
    /\ useSpotify' = FALSE
    /\ audioUrl' = file.name
    /\ nowMs' = Num(0)
    /\ durationMs' = 0
    /\ isPlaying' = FALSE
    /\ spotifyPlayer' = FALSE
    /\ spotifyReady' = FALSE
    /\ stalePlayer' = (stalePlayer \/ spotifyPlayer)
    /\ UNCHANGED spotifyStatus
    /\ audioTime' = Num(0)
    /\ audioPaused' = TRUE
    /\ audioListening' = TRUE
    /\ RecordClock("pickFile", [file |-> file])
    /\ UNCHANGED <<spotifyBasePos, spotifyBaseTs, spotifyPaused, spotifyDuration,
                   pendingSeek, wallNow>>
    /\ UNCHANGED timelineVars

\* a state listener that keeps the wall-clock stamp of the previous base
onPlayerStateChanged_keepsTs(state) ==
    /\ spotifyPlayer
    /\ IF IsNull(state)
       THEN UNCHANGED <<spotifyBasePos, spotifyBaseTs, spotifyPaused, spotifyDuration,
                        isPlaying, durationMs, nowMs, pendingSeek>>
       ELSE /\ spotifyBasePos' = Field(state, "position", 0)
            /\ spotifyBaseTs' = spotifyBaseTs
            /\ spotifyPaused' = state.paused
            /\ spotifyDuration' = Field(state, "duration", 0)
            /\ isPlaying' = ~state.paused
            /\ durationMs' = Field(state, "duration", 0)
            /\ nowMs' = Num(Field(state, "position", 0))
            /\ pendingSeek' = [i \in DOMAIN pendingSeek |->
                                  [pendingSeek[i] EXCEPT !.overtaken = TRUE]]
    /\ RecordClock("stateEvent", [state |-> state])
    /\ UNCHANGED <<audioUrl, audioTime, audioPaused, audioListening, useSpotify,
                   spotifyPlayer, spotifyReady, spotifyStatus, stalePlayer, wallNow>>
    /\ UNCHANGED timelineVars

\* the player_state_changed listener of the connected player; `overtaken` notes,
\* on every seek still in flight, that a state event arrived after it was issued
onPlayerStateChanged(state) ==
    /\ spotifyPlayer
    /\ IF IsNull(state)
       THEN UNCHANGED <<spotifyBasePos, spotifyBaseTs, spotifyPaused, spotifyDuration,
                        isPlaying, durationMs, nowMs, pendingSeek>>
       ELSE /\ spotifyBasePos' = Field(state, "position", 0)
            /\ spotifyBaseTs' = wallNow
            /\ spotifyPaused' = state.paused
            /\ spotifyDuration' = Field(state, "duration", 0)
            /\ isPlaying' = ~state.paused
            /\ durationMs' = Field(state, "duration", 0)
            /\ nowMs' = Num(Field(state, "position", 0))
            /\ pendingSeek' = [i \in DOMAIN pendingSeek |->
                                  [pendingSeek[i] EXCEPT !.overtaken = TRUE]]
    /\ RecordClock("stateEvent", [state |-> state])
    /\ UNCHANGED <<audioUrl, audioTime, audioPaused, audioListening, useSpotify,
                   spotifyPlayer, spotifyReady, spotifyStatus, stalePlayer, wallNow>>
    /\ UNCHANGED timelineVars

\* listeners that, on not_ready, also forget the estimator's base
onReadiness_resetsBase(ready) ==
    /\ spotifyPlayer
    /\ spotifyReady' = ready
    /\ spotifyStatus' = IF ready THEN "Spotify ready" ELSE "Spotify not ready"
    /\ spotifyBasePos' = IF ready THEN spotifyBasePos ELSE 0
    /\ spotifyPaused' = IF ready THEN spotifyPaused ELSE TRUE
    /\ RecordClock(IF ready THEN "ready" ELSE "not_ready", <<>>)
    /\ UNCHANGED <<nowMs, isPlaying, audioUrl, audioTime, audioPaused, audioListening,
                   useSpotify, spotifyPlayer, stalePlayer, spotifyBaseTs,
                   spotifyDuration, pendingSeek, wallNow, durationMs>>
    /\ UNCHANGED timelineVars

\* the "ready" and "not_ready" listeners of the connected player
onReadiness(ready) ==
    /\ spotifyPlayer
    /\ spotifyReady' = ready
    /\ spotifyStatus' = IF ready THEN "Spotify ready" ELSE "Spotify not ready"
    /\ RecordClock(IF ready THEN "ready" ELSE "not_ready", <<>>)
    /\ UNCHANGED <<nowMs, isPlaying, audioUrl, audioTime, audioPaused, audioListening,
                   useSpotify, spotifyPlayer, stalePlayer, spotifyBasePos, spotifyBaseTs,
                   spotifyPaused, spotifyDuration, pendingSeek, wallNow, durationMs>>
    /\ UNCHANGED timelineVars

\* the catch branch of getOAuthToken: the player, connected or already
\* disconnected, asked for a token and getValidAccessToken threw
onTokenFailure ==
    /\ spotifyPlayer \/ stalePlayer
    /\ spotifyStatus' = "Token invalid. Please log in again."
    /\ RecordClock("tokenFailure", <<>>)
    /\ UNCHANGED <<nowMs, isPlaying, audioUrl, audioTime, audioPaused, audioListening,
                   useSpotify, spotifyPlayer, spotifyReady, stalePlayer, spotifyBasePos,
                   spotifyBaseTs, spotifyPaused, spotifyDuration, pendingSeek, wallNow,
                   durationMs>>
    /\ UNCHANGED timelineVars

\* listeners that do not look at `cancelled`: the event of a player that was
\* torn down is handled like one of the connected player
onStalePlayerEvent_unchecked(event) ==
    /\ stalePlayer
    /\ IF event.name = "player_state_changed"
       THEN /\ spotifyBasePos' = Field(event.state, "position", 0)
            /\ spotifyBaseTs' = wallNow
            /\ spotifyPaused' = event.state.paused
            /\ spotifyDuration' = Field(event.state, "duration", 0)
            /\ isPlaying' = ~event.state.paused
            /\ durationMs' = Field(event.state, "duration", 0)
            /\ nowMs' = Num(Field(event.state, "position", 0))
            /\ UNCHANGED <<spotifyReady, spotifyStatus>>
       ELSE /\ spotifyReady' = (event.name = "ready")
            /\ spotifyStatus' = IF event.name = "ready" THEN "Spotify ready"
                                                        ELSE "Spotify not ready"
            /\ UNCHANGED <<spotifyBasePos, spotifyBaseTs, spotifyPaused, spotifyDuration,
                           isPlaying, durationMs, nowMs>>
    /\ RecordClock("staleEvent", [event |-> event])
    /\ UNCHANGED <<audioUrl, audioTime, audioPaused, audioListening, useSpotify,
                   spotifyPlayer, stalePlayer, pendingSeek, wallNow>>
    /\ UNCHANGED timelineVars

\* a "ready", "not_ready" or "player_state_changed" event of a player whose
\* effect was cleaned up: `cancelled` is true and each listener returns at
\* its first line
onStalePlayerEvent(event) ==
    /\ stalePlayer
    /\ RecordClock("staleEvent", [event |-> event])
    /\ UNCHANGED <<nowMs, isPlaying, audioUrl, audioTime, audioPaused, audioListening,
                   useSpotify, spotifyPlayer, spotifyReady, spotifyStatus, stalePlayer,
                   spotifyBasePos, spotifyBaseTs, spotifyPaused, spotifyDuration, pendingSeek,
                   wallNow, durationMs>>
    /\ UNCHANGED timelineVars

\* one requestAnimationFrame tick of the nowMs effect
tick ==
    /\ IF useSpotify
       THEN LET max == IF durationMs # 0 THEN durationMs
                       ELSE IF spotifyDuration # 0 THEN spotifyDuration
                       ELSE MAX_SAFE_INTEGER
            IN  nowMs' = Num(clamp(getSpotifyNowMs, 0, max))
       ELSE IF audioUrl # "" THEN nowMs' = Num(Floor(audioTime))
       ELSE UNCHANGED nowMs
    /\ RecordClock("tick", <<>>)
    /\ UNCHANGED <<isPlaying, audioUrl, audioTime, audioPaused, audioListening,
                   useSpotify, spotifyPlayer, spotifyReady, spotifyStatus, stalePlayer, spotifyBasePos, spotifyBaseTs,
                   spotifyPaused, spotifyDuration, pendingSeek, wallNow, durationMs>>
    /\ UNCHANGED timelineVars

\* seekTo up to `await p.seek(t)` (remote) or to its end (local)
seekTo(targetMs) ==
    LET t == clampNum(targetMs, 0, durationMs)
    IN  /\ IF useSpotify
           THEN /\ IF spotifyPlayer
                   THEN /\ Len(pendingSeek) < MaxSeeks
                        /\ pendingSeek' = Append(pendingSeek, [t |-> t, overtaken |-> FALSE])
                   ELSE UNCHANGED pendingSeek
                /\ UNCHANGED <<audioTime, nowMs>>
           ELSE /\ IF audioUrl # ""
                   THEN audioTime' = t /\ nowMs' = t
                   ELSE UNCHANGED <<audioTime, nowMs>>
                /\ UNCHANGED pendingSeek
        /\ RecordClock("seek", [targetMs |-> targetMs, t |-> t])
        /\ UNCHANGED <<isPlaying, audioUrl, audioPaused, audioListening, useSpotify,
                       spotifyPlayer, spotifyReady, spotifyStatus, stalePlayer, spotifyBasePos, spotifyBaseTs,
                       spotifyPaused, spotifyDuration, wallNow, durationMs>>
        /\ UNCHANGED timelineVars

seekBy(deltaMs) == seekTo(AddNum(getCurrentTimeMs, Num(deltaMs)))

\* seekTo after `await p.seek(t)`: the remote clock counts whole milliseconds
seekDone(i) ==
    LET t == pendingSeek[i].t
    IN  /\ spotifyBasePos' = Floor(t)
        /\ spotifyBaseTs' = wallNow
        /\ nowMs' = t
        /\ pendingSeek' = [j \in 1..(Len(pendingSeek) - 1) |->
                              IF j < i THEN pendingSeek[j] ELSE pendingSeek[j + 1]]
        /\ RecordClock("seekDone", pendingSeek[i])
        /\ UNCHANGED <<isPlaying, audioUrl, audioTime, audioPaused, audioListening,
                       useSpotify, spotifyPlayer, spotifyReady, spotifyStatus, stalePlayer, spotifyPaused,
                       spotifyDuration, wallNow, durationMs>>
        /\ UNCHANGED timelineVars

\* togglePlay; the remote player answers with a state event of its own, the
\* <audio> element with a play or pause event for the listeners it carries
togglePlay ==
    /\ IF ~useSpotify /\ audioUrl # ""
       THEN /\ audioPaused' = ~audioPaused
            /\ isPlaying' = IF audioListening THEN audioPaused ELSE isPlaying
       ELSE UNCHANGED <<audioPaused, isPlaying>>
    /\ RecordClock("togglePlay", <<>>)
    /\ UNCHANGED <<nowMs, audioUrl, audioTime, audioListening, useSpotify, spotifyPlayer,
                   spotifyReady, spotifyStatus, stalePlayer, spotifyBasePos, spotifyBaseTs, spotifyPaused,
                   spotifyDuration, pendingSeek, wallNow, durationMs>>
    /\ UNCHANGED timelineVars

\* time passes: Date.now() moves on, and so does a playing <audio> element
timePasses(dt) ==
    /\ wallNow' = wallNow + Floor(dt)
    /\ audioTime' = IF ~useSpotify /\ audioUrl # "" /\ ~audioPaused
                    THEN MinNum(AddNum(audioTime, dt), FileDuration(audioUrl))
                    ELSE audioTime
    /\ RecordClock("time", [dt |-> dt])
    /\ UNCHANGED <<nowMs, isPlaying, audioUrl, audioPaused, audioListening, useSpotify,
                   spotifyPlayer, spotifyReady, spotifyStatus, stalePlayer, spotifyBasePos, spotifyBaseTs, spotifyPaused,
                   spotifyDuration, pendingSeek, durationMs>>
    /\ UNCHANGED timelineVars

----------------------------------------------------------------------------
(* Export of a session document *)

\* an export that leaves the note out of every step
exportedStep_withoutNote(s) ==
    [id |-> s.id, t_ms |-> Num(s.t_ms), timestamp |-> s.timestamp, exercise |-> s.exercise,
     gear |-> s.gear, resistance |-> s.resistance, position |-> s.position,
     rpmMin |-> s.rpmMin, rpmMax |-> s.rpmMax]

\* what JSON.stringify and JSON.parse make of a step: a field that is
\* undefined is left out, the others come back as they were
exportedStep(s) ==
    LET always == [id |-> s.id, t_ms |-> Num(s.t_ms), timestamp |-> s.timestamp,
                   exercise |-> s.exercise, gear |-> s.gear, resistance |-> s.resistance,
                   position |-> s.position, rpmMin |-> s.rpmMin, rpmMax |-> s.rpmMax]
    IN  IF "note" \in DOMAIN s /\ s.note # undefined
        THEN Spread(always, [note |-> s.note])
        ELSE always

\* the document exportSession writes (created_at and the track name left out)
exportSession ==
    [version |-> 1,
     source |-> IF useSpotify THEN "spotify" ELSE "wav",
     duration_ms |-> durationMs,
     steps |-> [array |-> [i \in 1..Len(stepsSorted) |-> exportedStep(stepsSorted[i])]]]

----------------------------------------------------------------------------
(* Specification *)

Init ==
    /\ steps = <<>>
    /\ undoStack = <<>>
    /\ redoStack = <<>>
    /\ durationMs = 0
    /\ uidCount = 0
    /\ pendingImport = <<>>
    /\ nowMs = Num(0)
    /\ isPlaying = FALSE
    /\ audioUrl = ""
    /\ audioTime = Num(0)
    /\ audioPaused = TRUE
    /\ audioListening = TRUE
    /\ useSpotify = FALSE
    /\ spotifyPlayer = FALSE
    /\ spotifyReady = FALSE
    /\ spotifyStatus = ""
    /\ stalePlayer = FALSE
    /\ spotifyBasePos = 0
    /\ spotifyBaseTs = 0
    /\ spotifyPaused = TRUE
    /\ spotifyDuration = 0
    /\ pendingSeek = <<>>
    /\ wallNow = StartOfSession
    /\ trail = <<>>
    /\ nOps = 0

\* the operations of Spec leave the transport clock alone
Tick == nOps < MaxOps /\ nOps' = nOps + 1 /\ UNCHANGED clockVars

Mark == Tick /\ \E r \in Readings, sel \in Selections : markCueNow(r, sel)

Update == Tick /\ \E id \in Ids(steps), patch \in Patches : updateStep(id, patch)

Delete == Tick /\ \E id \in Ids(steps) : deleteStep(id)

Nudge == Tick /\ \E id \in Ids(steps), d \in NudgeDeltas : nudgeStep(id, d)

Clear == Tick /\ clearSteps

ImportStart == Tick /\ \E doc \in Documents : importStart(doc)

ImportDone == Tick /\ \E i \in 1..Len(pendingImport) : importSession(i)

\* The Undo and Redo buttons are disabled while their sequence is empty; undo
\* and redo keep their own early return, and may run on an empty sequence here.
Undo == Tick /\ undo

Redo == Tick /\ redo

TrackLoad == Tick /\ \E track \in Catalog : loadSelectedTrack(track)

Loaded == Tick /\ \E d \in AudioDurations : onLoaded(d)

Next ==
    \/ Mark
    \/ Update
    \/ Delete
    \/ Nudge
    \/ Clear
    \/ ImportStart
    \/ ImportDone
    \/ Undo
    \/ Redo
    \/ TrackLoad
    \/ Loaded

Spec == Init /\ [][Next]_vars

(* The history manager alone, driven past its cap: the operator keeps          *)
(* re-marking one beat with one selection, and undoes and redoes at will.      *)

HistReading == [whole |-> 10000, half |-> FALSE]

HistSelection ==
    [selExercise |-> "flat", selGear |-> 5, selPosition |-> "Ride easy",
     selRpmMin |-> 65, selRpmMax |-> 75, selNote |-> <<>>, rpmTrend |-> ""]

HistMark == nOps' = nOps /\ markCueNow(HistReading, HistSelection) /\ UNCHANGED clockVars

HistUndo == nOps' = nOps /\ undo /\ UNCHANGED clockVars

HistRedo == nOps' = nOps /\ redo /\ UNCHANGED clockVars

NextHist ==
    \/ HistMark
    \/ HistUndo
    \/ HistRedo

SpecHist == Init /\ [][NextHist]_vars

(* Marks only, from the empty timeline *)

NextMarks == Mark

SpecMarks == Init /\ [][NextMarks]_vars

(* Import alone, of well-formed and malformed documents, between marks and    *)
(* undos.                                                                     *)

ImportAny == Tick /\ \E doc \in Documents \cup MalformedDocuments : importStart(doc)

NextImport ==
    \/ Mark
    \/ Undo
    \/ ImportAny
    \/ ImportDone

SpecImport == Init /\ [][NextImport]_vars

(* The edits of one short sitting: marks, edits by id, imports, undo and redo, *)
(* with the audio duration known or not.                                      *)

EditTick == nOps < MaxEditOps /\ nOps' = nOps + 1 /\ UNCHANGED clockVars

EditMark == EditTick /\ \E r \in Readings, sel \in Selections : markCueNow(r, sel)

EditUpdate == EditTick /\ \E id \in Ids(steps), patch \in Patches : updateStep(id, patch)

EditDelete == EditTick /\ \E id \in Ids(steps) : deleteStep(id)

EditNudge == EditTick /\ \E id \in Ids(steps), d \in NudgeDeltas : nudgeStep(id, d)

EditImportStart == EditTick /\ \E doc \in Documents : importStart(doc)

EditImportDone == EditTick /\ \E i \in 1..Len(pendingImport) : importSession(i)

EditUndo == EditTick /\ undo

EditRedo == EditTick /\ redo

EditLoaded == EditTick /\ \E d \in AudioDurations : onLoaded(d)

NextEdits ==
    \/ EditMark
    \/ EditUpdate
    \/ EditDelete
    \/ EditNudge
    \/ EditImportStart
    \/ EditImportDone
    \/ EditUndo
    \/ EditRedo
    \/ EditLoaded

SpecEdits == Init /\ [][NextEdits]_vars

(* The remote player over its life: connected, torn down, connected again,  *)
(* with the events and token requests of the connected and the old players.  *)

PlayerTick == nOps < MaxPlayerOps /\ nOps' = nOps + 1

PlayerUseSpotifyChange ==
    PlayerTick /\ \E loggedIn \in BOOLEAN : onUseSpotifyChange(~useSpotify, loggedIn)

PlayerPickFile == PlayerTick /\ \E file \in Files : onPickFile(file)

PlayerStateEvent == PlayerTick /\ \E state \in PlayerStates : onPlayerStateChanged(state)

PlayerReadiness == PlayerTick /\ \E ready \in BOOLEAN : onReadiness(ready)

TokenFailure == PlayerTick /\ onTokenFailure

StalePlayerEvent == PlayerTick /\ \E event \in StaleEvents : onStalePlayerEvent(event)

PlayerTimePasses == PlayerTick /\ \E dt \in Elapses : timePasses(dt)

NextPlayer ==
    \/ PlayerUseSpotifyChange
    \/ PlayerPickFile
    \/ PlayerStateEvent
    \/ PlayerReadiness
    \/ TokenFailure
    \/ StalePlayerEvent
    \/ PlayerTimePasses

SpecPlayer == Init /\ [][NextPlayer]_vars

(* The transport clock: source switches, player events, animation frames,    *)
(* seeks, the passing of time, and marks taken from the clock.                *)

ClockTick == nOps < MaxClockOps /\ nOps' = nOps + 1

UseSpotifyChange == ClockTick /\ \E loggedIn \in BOOLEAN : onUseSpotifyChange(~useSpotify, loggedIn)

PickFile == ClockTick /\ \E file \in Files : onPickFile(file)

LoadedMetadata ==
    /\ ClockTick
    /\ ~useSpotify /\ audioUrl # "" /\ audioListening
    /\ onLoaded(FileDuration(audioUrl))
    /\ UNCHANGED clockVars

PlayerStateChanged == ClockTick /\ \E state \in PlayerStates : onPlayerStateChanged(state)

Readiness == ClockTick /\ \E ready \in BOOLEAN : onReadiness(ready)


Frame == ClockTick /\ tick

\* the arrow keys work at any time, the Back and Fwd buttons while canControl
SeekBy == ClockTick /\ \E d \in SeekDeltas : seekBy(d)

\* the Jump button of a cue
Jump == ClockTick /\ canControl /\ \E i \in 1..Len(steps) : seekTo(Num(steps[i].t_ms))

SeekDone == ClockTick /\ \E i \in 1..Len(pendingSeek) : seekDone(i)

TogglePlay == ClockTick /\ togglePlay

TimePasses == ClockTick /\ \E dt \in Elapses : timePasses(dt)

\* a mark taken from the clock: the M key calls markCueNow whatever canControl
\* is, the Mark button is disabled unless canControl
MarkCue ==
    /\ ClockTick
    /\ \E viaKey \in BOOLEAN : (viaKey \/ canControl)
    /\ markCueNow(getCurrentTimeMs, HistSelection)
    /\ UNCHANGED clockVars

NextClock ==
    \/ UseSpotifyChange
    \/ PickFile
    \/ LoadedMetadata
    \/ PlayerStateChanged
    \/ Readiness
    \/ Frame
    \/ SeekBy
    \/ Jump
    \/ SeekDone
    \/ TogglePlay
    \/ TimePasses
    \/ MarkCue

SpecClock == Init /\ [][NextClock]_vars

----------------------------------------------------------------------------
(* Properties *)

\* the last operation performed ("" before the first) and the state it started from
LastOp == IF trail = <<>> THEN "" ELSE Last(trail).op

Pre == Last(trail)

Count(s, c) == Cardinality({i \in 1..Len(s) : s[i] = c})

ForwardOps == {"mark", "update", "delete", "nudge", "clear", "import"}

\* C1: after any sequence of timeline mutations the stored cue list is sorted
\* ascending by t_ms and no two cues in it share an id.
C1_SortedUniqueIds ==
    /\ \A i \in 1..(Len(steps) - 1) : steps[i].t_ms <= steps[i + 1].t_ms
    /\ \A i, j \in 1..Len(steps) : i # j => steps[i].id # steps[j].id

\* C2: starting from an empty timeline, after any sequence of marks no two
\* distinct cues have t_ms values that differ by 250 ms or less.
C2_NoTwoCuesWithinSnapWindow ==
    \A i, j \in 1..Len(steps) : i # j => Abs(steps[i].t_ms - steps[j].t_ms) > 250

\* C3: if a mark at t1 creates a cue and the next mark is at t2 with
\* |t2 - t1| <= 250, the two marks together add exactly one cue, which keeps
\* the id the first mark created, has t_ms = t2 and the second mark's payload.
C3_SecondMarkWinsOnCreatedCue ==
    LET n == Len(trail) IN
    (/\ n >= 2
     /\ trail[n - 1].op = "mark" /\ trail[n].op = "mark"
     /\ \A i \in 1..Len(trail[n - 1].steps) :
            Abs(trail[n - 1].steps[i].t_ms - trail[n - 1].arg.t) > 250
     /\ Abs(trail[n].arg.t - trail[n - 1].arg.t) <= 250)
    => LET before == trail[n - 1].steps
           createdIds == Ids(trail[n].steps) \ Ids(before)
           payload == trail[n].arg.stepPatch
       IN  /\ Len(steps) = Len(before) + 1
           /\ \A id \in createdIds :
                \E i \in 1..Len(steps) :
                    /\ steps[i].id = id
                    /\ steps[i].t_ms = trail[n].arg.t
                    /\ \A f \in DOMAIN payload : steps[i][f] = payload[f]

\* C4: when no existing cue lies within 250 ms of t, a mark at t adds exactly
\* one new cue at t with an id not present before and leaves every existing
\* cue unchanged.
C4_MarkOutsideWindowAddsOneCue ==
    (/\ LastOp = "mark"
     /\ \A i \in 1..Len(Pre.steps) : Abs(Pre.steps[i].t_ms - Pre.arg.t) > 250)
    => LET added == {i \in 1..Len(steps) : steps[i].id \notin Ids(Pre.steps)}
       IN  /\ Len(steps) = Len(Pre.steps) + 1
           /\ Cardinality(added) = 1
           /\ \A i \in added : steps[i].t_ms = Pre.arg.t
           /\ \A c \in Range(Pre.steps) : Count(steps, c) = Count(Pre.steps, c)

\* marks at 10,000 ms and then 11,000 ms have produced two distinct cues
C4_Witness ==
    /\ LastOp = "mark"
    /\ Len(Pre.steps) = 1
    /\ Pre.steps[1].t_ms = 10000
    /\ Pre.arg.t = 11000
    /\ Len(steps) = 2
    /\ steps[1] = Pre.steps[1]
    /\ steps[2].t_ms = 11000
    /\ steps[1].id # steps[2].id

\* C5: a single mark followed by undo yields the timeline from before the
\* mark, and a following redo yields the timeline from right after the mark.
C5_MarkUndoRedoRoundTrip ==
    LET n == Len(trail) IN
    /\ (n >= 2 /\ trail[n - 1].op = "mark" /\ trail[n].op = "undo")
       => steps = trail[n - 1].steps
    /\ (n >= 3 /\ trail[n - 2].op = "mark" /\ trail[n - 1].op = "undo" /\ trail[n].op = "redo")
       => steps = trail[n - 1].steps

\* mark, undo, redo on a non-empty timeline that the mark changed
C5_Witness ==
    LET n == Len(trail) IN
    /\ n >= 3
    /\ trail[n - 2].op = "mark" /\ trail[n - 1].op = "undo" /\ trail[n].op = "redo"
    /\ trail[n - 2].steps # <<>>
    /\ trail[n].steps = trail[n - 2].steps
    /\ steps # trail[n - 2].steps

\* C6: the undo sequence never holds more than 30 snapshots; a push that
\* would exceed the cap discards the oldest snapshot.
C6_UndoStackWithinCap ==
    /\ Len(undoStack) <= UndoCap
    /\ (LastOp = "mark" /\ Len(Pre.undoStack) >= UndoCap)
       => undoStack = Append(Tail(Pre.undoStack), Pre.steps)

\* C7: immediately after any forward edit the redo sequence is empty,
\* whatever it held before.
C7_ForwardEditClearsRedo == LastOp \in ForwardOps => redoStack = <<>>

\* a forward edit was made while the redo sequence held a snapshot
C7_Witness == LastOp \in ForwardOps /\ Pre.redoStack # <<>>

\* C8: undo with a non-empty undo sequence makes the timeline the last undo
\* snapshot, removes exactly that snapshot and appends the pre-undo timeline
\* to the redo sequence; redo does the mirror image.
C8_UndoRedoMoveOneSnapshot ==
    /\ (LastOp = "undo" /\ Pre.undoStack # <<>>)
       => /\ steps = Last(Pre.undoStack)
          /\ undoStack = Front(Pre.undoStack)
          /\ redoStack = Append(Pre.redoStack, Pre.steps)
    /\ (LastOp = "redo" /\ Pre.redoStack # <<>>)
       => /\ steps = Last(Pre.redoStack)
          /\ redoStack = Front(Pre.redoStack)
          /\ undoStack = Append(Pre.undoStack, Pre.steps)

\* a redo that restored a timeline different from the one it replaced
C8_Witness ==
    /\ LastOp = "redo"
    /\ Pre.redoStack # <<>>
    /\ Pre.undoStack # <<>>
    /\ steps # Pre.steps

\* C9: undo with an empty undo sequence, and redo with an empty redo
\* sequence, leave the timeline and both sequences unchanged.
C9_EmptyUndoRedoAreNoOps ==
    /\ (LastOp = "undo" /\ Pre.undoStack = <<>>)
       => steps = Pre.steps /\ undoStack = Pre.undoStack /\ redoStack = Pre.redoStack
    /\ (LastOp = "redo" /\ Pre.redoStack = <<>>)
       => steps = Pre.steps /\ undoStack = Pre.undoStack /\ redoStack = Pre.redoStack

\* undo on an empty undo sequence, then redo on an empty redo sequence, with
\* cues in the timeline
C9_Witness ==
    LET n == Len(trail) IN
    /\ n >= 2
    /\ trail[n - 1].op = "undo" /\ trail[n - 1].undoStack = <<>>
    /\ trail[n].op = "redo" /\ trail[n].redoStack = <<>>
    /\ steps # <<>>

\* C10: each single call of mark, updateStep, deleteStep, nudgeStep or clear
\* appends exactly one snapshot to the undo sequence, equal to the timeline
\* immediately before the call's change (the oldest may be discarded).
C10_OneSnapshotPerEdit ==
    LastOp \in {"mark", "update", "delete", "nudge", "clear"}
    => /\ undoStack # <<>>
       /\ Last(undoStack) = Pre.steps
       /\ \/ Front(undoStack) = Pre.undoStack
          \/ Pre.undoStack # <<>> /\ Front(undoStack) = Tail(Pre.undoStack)

\* an updateStep whose patch carried several fields and changed the timeline
C10_Witness ==
    /\ LastOp = "update"
    /\ Cardinality(DOMAIN Pre.arg.patch) > 1
    /\ Pre.undoStack # <<>>
    /\ steps # Pre.steps

\* C11: when an import's file read completes after other edits were applied,
\* the snapshot the import pushes onto the undo sequence is the timeline as of
\* immediately before the import replaces it, so that an undo right after the
\* import restores those intervening edits.
C11_ImportSnapshotIsPreImportTimeline ==
    LastOp = "import" => undoStack # <<>> /\ Last(undoStack) = Pre.steps

\* the estimate getSpotifyNowMs gave in the state the last operation started from
PreEstimate ==
    SpotifyNowMs(Pre.clock.spotifyBasePos, Pre.clock.spotifyBaseTs,
                 Pre.clock.spotifyPaused, Pre.clock.wallNow)

\* the operations of the transport clock, as the history variable names them
ClockOps ==
    {"useSpotify", "pickFile", "stateEvent", "ready", "not_ready", "tick", "seek", "seekDone",
     "togglePlay", "time"}

\* C12: in remote mode, the position read immediately after a state event is
\* handled, with no wall-clock time elapsed, equals exactly the position that
\* event reported.
C12_ReadAfterStateEventIsReportedPosition ==
    (LastOp = "stateEvent" /\ ~IsNull(Pre.arg.state))
    => /\ getCurrentTimeMs = Num(Pre.arg.state.position)
       /\ nowMs = Num(Pre.arg.state.position)

\* a state event of a playing track handled while the estimator was
\* extrapolating from an older base
C12_Witness ==
    /\ LastOp = "stateEvent"
    /\ ~IsNull(Pre.arg.state)
    /\ ~Pre.arg.state.paused
    /\ ~Pre.clock.spotifyPaused
    /\ Pre.clock.wallNow > Pre.clock.spotifyBaseTs
    /\ PreEstimate # Pre.arg.state.position
    /\ getCurrentTimeMs = Num(Pre.arg.state.position)

\* C13: in remote mode, between two state events the position estimate is
\* base_position while paused and base_position + max(0, now - base_ts) while
\* not paused; so whatever the clock does other than handling a state event
\* leaves it constant while paused and never decreases it while playing.
C13_EstimateBetweenStateEvents ==
    (LastOp \in ClockOps \ {"stateEvent"} /\ Pre.clock.useSpotify /\ useSpotify)
    => /\ getSpotifyNowMs = IF spotifyPaused THEN spotifyBasePos
                            ELSE spotifyBasePos + Max(0, wallNow - spotifyBaseTs)
       /\ spotifyPaused => getSpotifyNowMs = PreEstimate
       /\ ~spotifyPaused => getSpotifyNowMs >= PreEstimate

\* C14: in every reachable state the displayed nowMs, and the time a mark
\* uses, lie in [0, duration] once a duration is known and are >= 0 before.
C14_PositionWithinDuration ==
    /\ LeqNum(Num(0), nowMs)
    /\ durationMs # 0 => LeqNum(nowMs, Num(durationMs))
    /\ LastOp = "mark"
       => /\ Pre.arg.t >= 0
          /\ Pre.durationMs # 0 => Pre.arg.t <= Pre.durationMs

\* C15: in remote mode the estimator's base is the one set by the most
\* recently received state event: no poll tick changes it, and no seek
\* continuation overwrites a base set by a state event that arrived after the
\* seek was issued.
C15_NewestStateEventKeepsBase ==
    ((LastOp = "seekDone" /\ Pre.arg.overtaken) \/ LastOp = "tick")
    => /\ spotifyBasePos = Pre.clock.spotifyBasePos
       /\ spotifyBaseTs = Pre.clock.spotifyBaseTs
       /\ spotifyPaused = Pre.clock.spotifyPaused

\* C16: after the clock source is switched (remote mode toggled, or a local
\* file loaded) a position read made before the new source's first event
\* returns 0, also after time has passed or a poll tick has run.
C16_SwitchResetsPosition ==
    LET n == Len(trail)
        Switches == {"useSpotify", "pickFile"}
    IN  /\ LastOp \in Switches => getCurrentTimeMs = Num(0) /\ nowMs = Num(0)
        /\ (n >= 2 /\ trail[n - 1].op \in Switches /\ trail[n].op \in {"tick", "time"})
           => getCurrentTimeMs = Num(0) /\ nowMs = Num(0)

\* C17: while no clock source is attached (no local file, or remote player
\* not ready) a position read returns 0 and a mark request, whichever way it
\* is made, leaves the timeline and the undo and redo sequences unchanged.
\* (A mark leaves the clock as it found it, so canControl is the same before
\* and after it.)
C17_NoSourceNoMark ==
    /\ ~canControl => getCurrentTimeMs = Num(0)
    /\ (LastOp = "mark" /\ ~canControl)
       => steps = Pre.steps /\ undoStack = Pre.undoStack /\ redoStack = Pre.redoStack

\* C18: for every position p and every timeline, the active cue is the last
\* cue in sorted order with t_ms <= p, and there is none exactly when the
\* timeline is empty or p lies before the first cue.
C18_ActiveCueIsLastAtOrBefore ==
    LET S == stepsSorted IN
    /\ \A i \in 1..(Len(S) - 1) : S[i].t_ms <= S[i + 1].t_ms
    /\ \A c \in Range(steps) : Count(S, c) = Count(steps, c)
    /\ \A p \in ProbePositions \cup {nowMs} :
        LET atOrBefore == {i \in 1..Len(S) : S[i].t_ms <= Floor(p)}
            active == currentStepAt(S, p)
        IN  /\ atOrBefore # {} => active = S[CHOOSE i \in atOrBefore : \A j \in atOrBefore : j <= i]
            /\ IsNull(active) <=> (steps = <<>> \/ Floor(p) < S[1].t_ms)

\* a timeline of several cues, asked before its first cue, exactly at a cue
\* and after its last cue
C18_Witness ==
    /\ Len(steps) >= 2
    /\ stepsSorted[1].t_ms = 10000
    /\ IsNull(currentStepAt(stepsSorted, Num(9999)))
    /\ currentStepAt(stepsSorted, Num(10000)) = stepsSorted[1]
    /\ currentStepAt(stepsSorted, Num(60000)) = Last(stepsSorted)
    /\ Last(stepsSorted) # stepsSorted[1]

\* C19: an import of a document whose cue list is missing or not an array is
\* rejected as a whole: the timeline and the undo and redo sequences are the
\* same after the failed import as before it.
C19_InvalidImportChangesNothing ==
    (/\ LastOp \in {"import", "importRejected"}
     /\ \/ IsNull(Pre.arg.doc)
        \/ "steps" \notin DOMAIN Pre.arg.doc
        \/ ~IsArray(Pre.arg.doc.steps))
    => steps = Pre.steps /\ undoStack = Pre.undoStack /\ redoStack = Pre.redoStack

\* a document whose steps field is a string, read while the redo sequence
\* held a snapshot and the timeline had changed since the import was started
C19_Witness ==
    /\ LastOp = "importRejected"
    /\ "steps" \in DOMAIN Pre.arg.doc
    /\ Pre.redoStack # <<>>
    /\ Len(trail) >= 2
    /\ trail[Len(trail) - 1].op = "undo"

\* C20: an import of a document whose cue list is an array succeeds even when
\* some entries are malformed: the resulting timeline holds exactly one cue
\* for each entry that has a numeric t_ms and none for the other entries.
C20_ImportKeepsEntriesWithNumericTime ==
    (/\ LastOp \in {"import", "importRejected"}
     /\ "steps" \in DOMAIN Pre.arg.doc
     /\ IsArray(Pre.arg.doc.steps))
    => LET es == Pre.arg.doc.steps.array
           numeric == {i \in 1..Len(es) :
                          ~IsNull(es[i]) /\ "t_ms" \in DOMAIN es[i] /\ IsNumber(es[i].t_ms)}
       IN  /\ LastOp = "import"
           /\ Len(steps) = Cardinality(numeric)
           /\ \E f \in [numeric -> 1..Len(steps)] :
                /\ \A i, j \in numeric : i # j => f[i] # f[j]
                /\ \A i \in numeric :
                     /\ steps[f[i]].t_ms = Floor(es[i].t_ms)
                     /\ "id" \in DOMAIN es[i] => steps[f[i]].id = es[i].id

\* an import over a non-empty timeline of a document with one well-formed
\* entry, one without t_ms, one null and one whose t_ms is a string
C20_Witness ==
    /\ LastOp = "import"
    /\ Pre.steps # <<>>
    /\ Len(Pre.arg.doc.steps.array) = 4
    /\ Len(steps) = 1
    /\ steps[1].t_ms = 10200

C23_CuesWithinDuration ==
    durationMs # 0
    => \A i \in 1..Len(steps) :
          /\ steps[i].t_ms \in Int
          /\ 0 <= steps[i].t_ms
          /\ steps[i].t_ms <= durationMs

\* C24: a mark made while the playback position is p gives the created or
\* merged cue t_ms = clamp(floor(p), 0, duration_ms) when the duration is
\* known and t_ms = max(0, floor(p)) when it is not.  (A mark leaves the clock
\* alone, so the position read after it is the p it was made at.)
C24_MarkTimeIsClampedFloor ==
    LastOp = "mark"
    => LET p == getCurrentTimeMs
           t == IF Pre.durationMs # 0
                THEN clamp(Floor(p), 0, Pre.durationMs)
                ELSE Max(0, Floor(p))
       IN  /\ Pre.arg.t = t
           /\ \E i \in 1..Len(steps) :
                 /\ steps[i].t_ms = t
                 /\ steps[i].gear = Pre.arg.stepPatch.gear
                 /\ steps[i].exercise = Pre.arg.stepPatch.exercise

\* a mark made at a position past the known duration
C24_Witness ==
    /\ LastOp = "mark"
    /\ Pre.durationMs # 0
    /\ Floor(getCurrentTimeMs) > Pre.durationMs
    /\ \E i \in 1..Len(steps) : steps[i].t_ms = Pre.durationMs

\* the cues of the timeline s, as a set
Cues(s) == {s[i] : i \in 1..Len(s)}

\* the last operation changed the active track: the clock source was toggled
\* while a track was active, or a local file other than the active one was
\* picked, or a catalog track was loaded
TrackChanged ==
    \/ LastOp = "useSpotify" /\ (Pre.clock.useSpotify \/ Pre.clock.audioUrl # "")
    \/ LastOp = "pickFile"
       /\ (Pre.clock.useSpotify \/ Pre.clock.audioUrl \notin {"", Pre.arg.file.name})
    \/ LastOp = "trackLoad" /\ TrackUri(Pre.arg.track) # ""

\* C25: when the active track changes (another local file picked, the clock
\* source toggled, or a catalog track selected) the timeline is replaced
\* wholesale: no cue of the previous track remains in it, and no undo snapshot
\* holds a cue of the previous track.
C25_TrackChangeReplacesTimeline ==
    TrackChanged
    => /\ Cues(steps) \cap Cues(Pre.steps) = {}
       /\ \A k \in 1..Len(undoStack) : Cues(undoStack[k]) \cap Cues(Pre.steps) = {}

\* the last operation was a failure notification of the remote backend
FailureNotified ==
    \/ LastOp \in {"not_ready", "tokenFailure"}
    \/ LastOp = "stateEvent" /\ IsNull(Pre.arg.state)

\* C26: a remote backend failure notification (not_ready, a token failure, or
\* a state event that carries no state) changes only the status and ready
\* indicators: the estimator's base position, base timestamp, paused flag and
\* duration are unchanged, and a position read returns the same extrapolated
\* value as before.
C26_FailureKeepsEstimator ==
    FailureNotified
    => /\ spotifyBasePos = Pre.clock.spotifyBasePos
       /\ spotifyBaseTs = Pre.clock.spotifyBaseTs
       /\ spotifyPaused = Pre.clock.spotifyPaused
       /\ spotifyDuration = Pre.clock.spotifyDuration
       /\ getSpotifyNowMs = PreEstimate
       /\ [ClockState EXCEPT !.spotifyReady = FALSE, !.spotifyStatus = ""]
          = [Pre.clock EXCEPT !.spotifyReady = FALSE, !.spotifyStatus = ""]
       /\ durationMs = Pre.durationMs
       /\ steps = Pre.steps /\ undoStack = Pre.undoStack /\ redoStack = Pre.redoStack

\* not_ready arrived while the estimator was extrapolating a playing track,
\* and the ready indicator went off
C26_Witness ==
    /\ LastOp = "not_ready"
    /\ Pre.clock.spotifyReady /\ ~spotifyReady
    /\ ~spotifyPaused
    /\ wallNow > spotifyBaseTs
    /\ getSpotifyNowMs > spotifyBasePos
    /\ spotifyStatus # Pre.clock.spotifyStatus

\* C30: once remote mode is switched off, or the player effect is torn down,
\* a state event or a ready / not_ready event still delivered by the old
\* player changes neither the estimator base nor the displayed position,
\* duration or playing flag (nor the ready indicator and the status).
C30_StalePlayerEventsIgnored ==
    LastOp = "staleEvent"
    => /\ spotifyBasePos = Pre.clock.spotifyBasePos
       /\ spotifyBaseTs = Pre.clock.spotifyBaseTs
       /\ spotifyPaused = Pre.clock.spotifyPaused
       /\ spotifyDuration = Pre.clock.spotifyDuration
       /\ nowMs = Pre.clock.nowMs
       /\ durationMs = Pre.durationMs
       /\ isPlaying = Pre.clock.isPlaying
       /\ spotifyReady = Pre.clock.spotifyReady
       /\ spotifyStatus = Pre.clock.spotifyStatus

\* the old player delivered a state event that differs from the estimator's
\* base, after remote mode was switched off and while a local file is active
C30_Witness ==
    /\ LastOp = "staleEvent"
    /\ Pre.arg.event.name = "player_state_changed"
    /\ ~useSpotify
    /\ audioUrl # ""
    /\ Pre.arg.event.state.position # spotifyBasePos

\* the cues of the timeline before the last mark that lie within snapMs of
\* the mark's time
NearMark == {i \in 1..Len(Pre.steps) : Abs(Pre.steps[i].t_ms - Pre.arg.t) <= snapMs}

\* C27: when several existing cues lie within 250 ms of the mark time t, the
\* mark modifies exactly one of them, the first in sorted order: it takes t
\* and the payload, the others are unchanged and the number of cues is the same.
C27_MarkModifiesFirstMatchOnly ==
    (LastOp = "mark" /\ Cardinality(NearMark) >= 2)
    => LET first == CHOOSE i \in NearMark : \A j \in NearMark : i <= j
           merged == Spread(Spread(Pre.steps[first], Pre.arg.stepPatch),
                            [t_ms |-> Pre.arg.t, timestamp |-> formatTimestamp(Pre.arg.t)])
       IN  /\ Len(steps) = Len(Pre.steps)
           /\ \A i \in 1..Len(Pre.steps) :
                 i # first => Count(steps, Pre.steps[i]) = Count(Pre.steps, Pre.steps[i])
           /\ Count(steps, merged) >= 1
           /\ \A j \in 1..Len(steps) :
                 steps[j] = merged \/ \E i \in 1..Len(Pre.steps) : i # first /\ steps[j] = Pre.steps[i]

\* a mark between two cues that both lie within snapMs of it, with a payload
\* that changes the first of them
C27_Witness ==
    /\ LastOp = "mark"
    /\ Cardinality(NearMark) >= 2
    /\ steps # Pre.steps
    /\ \E i \in NearMark : Pre.steps[i].t_ms < Pre.arg.t
    /\ \E i \in NearMark : Pre.steps[i].t_ms > Pre.arg.t

\* the cues of s whose id is not id, in their order in s
OtherCues(s, id) == SelectSeq(s, LAMBDA c : c.id # id)

\* C28: updateStep, nudgeStep and deleteStep leave every cue whose id differs
\* from the given id unchanged in all fields; updateStep and nudgeStep never
\* change the set of ids (nor the number of cues); deleteStep removes exactly
\* the cues with the given id.
C28_EditsByIdTouchOnlyThatId ==
    /\ LastOp \in {"update", "nudge", "delete"}
       => OtherCues(steps, Pre.arg.id) = OtherCues(Pre.steps, Pre.arg.id)
    /\ LastOp \in {"update", "nudge"}
       => /\ Ids(steps) = Ids(Pre.steps)
          /\ Len(steps) = Len(Pre.steps)
    /\ LastOp = "delete"
       => /\ Pre.arg.id \notin Ids(steps)
          /\ steps = OtherCues(Pre.steps, Pre.arg.id)

\* an update that moved its cue past another cue, which stayed as it was
C28_Witness ==
    /\ LastOp = "update"
    /\ Len(steps) >= 2
    /\ steps[Len(steps)].id = Pre.arg.id
    /\ Pre.steps[1].id = Pre.arg.id
    /\ steps[1] = Pre.steps[2]
    /\ steps[1].id # Pre.arg.id

\* the last 2n operations were n undos followed by n redos
UndoRedoRun(n) ==
    LET len == Len(trail) IN
    /\ len >= 2 * n
    /\ \A k \in 1..n : trail[len - 2 * n + k].op = "undo" /\ trail[len - n + k].op = "redo"

\* the timeline and both sequences are what they were when the last 2n
\* operations began
BackAtStartOfRun(n) ==
    LET start == trail[Len(trail) - 2 * n + 1] IN
    /\ steps = start.steps
    /\ undoStack = start.undoStack
    /\ redoStack = start.redoStack

\* undo and redo keep the sum of the lengths of the two sequences
UndoRedoKeepSum ==
    LastOp \in {"undo", "redo"}
    => Len(undoStack) + Len(redoStack) = Len(Pre.undoStack) + Len(Pre.redoStack)

====
